---- MODULE Spec2Model ----
(***************************************************************************)
(* The ability data layer of UE-AbilitySystem.                             *)
(*                                                                         *)
(*   ModularSystem/AbilityData.h      FAbilityModule (the point record),   *)
(*                                    FMagicalAbility, FCraftingAbility,   *)
(*                                    ... (one map of records per          *)
(*                                    category) and FAbility (the sheet).  *)
(*   Source/AbilitySystem/AbilityComponent.{h,cpp}, AbilityType.h          *)
(*                                    UAbilityComponent: four maps of      *)
(*                                    FAbilityData keyed by ability.       *)
(*                                                                         *)
(* The category structs of AbilityData.h are copies of one another that    *)
(* differ in the enumeration and the member name only; the four groups of  *)
(* functions of UAbilityComponent likewise.  Each group is modelled once,  *)
(* with the category as a parameter.  Two of the sheet's categories        *)
(* (Magical, Crafting) are modelled, each with the enumeration's sentinels *)
(* and its first two abilities: no operation treats one key differently    *)
(* from another.                                                           *)
(***************************************************************************)
EXTENDS Integers, FiniteSets, Sequences, TLC

VARIABLES
    Abilities,  \* FAbility: category -> TMap<E...AbilityType, FAbilityModule>
    Summary,    \* FAbility: AbilityPoints, MaxAbilityPoints, AllocatedPoints
    Storage,    \* UAbilityComponent: category -> TMap<E...Ability, FAbilityData>
    fault,      \* a TMap was indexed with operator[] by a key it does not hold
    call,       \* the last call: its function, category and enumeration value
    ret,        \* what the last call returned ("void" for a void function)
    prev,       \* the program's state right before the last call
    streak      \* the run of identical calls the last call ends (n = 0: not followed)

vars == <<Abilities, Summary, Storage, fault, call, ret, prev, streak>>

(***************************************************************************)
(* Bounds of the model.                                                    *)
(***************************************************************************)
\* The largest value an external writer (editor, Blueprint) stores in an
\* int8 field of a record.
MaxVal == 3
\* The longest run of identical consecutive calls.
MaxStreak == 4

Min(a, b) == IF a <= b THEN a ELSE b

(***************************************************************************)
(* FAbilityModule: the progression record of one ability.                  *)
(* The fields are int8; the only arithmetic is ++Point under               *)
(* Point < MaxPoint (at most 127) and --Point under Point > 0, neither of  *)
(* which can leave the int8 range.                                         *)
(***************************************************************************)
FAbilityModule ==
    [bUnlocked |-> FALSE, Point |-> 0, MaxPoint |-> 5, AllocatedPoint |-> 0]

UpdateUnlockStatus(m) == [m EXCEPT !.bUnlocked = (m.Point > 0)]

\* Mutants of Reset: the points handed back to the allocation (AllocatedPoint
\* = Point before Point = 0); MaxPoint left as it is.
Reset_PointsToAllocated(m) ==
    [m EXCEPT !.bUnlocked = FALSE, !.Point = 0, !.AllocatedPoint = m.Point, !.MaxPoint = 5]


Reset_KeepsMaxPoint(m) ==
    [m EXCEPT !.bUnlocked = FALSE, !.Point = 0, !.AllocatedPoint = 0]

Reset(m) ==
    [m EXCEPT !.bUnlocked = FALSE, !.Point = 0, !.AllocatedPoint = 0, !.MaxPoint = 5]

\* Mutants of IncreasePoint: UpdateUnlockStatus() not called; <= for < at
\* the allocation ceiling; the allocation ceiling forgotten; || for &&.
IncreasePoint_NoUpdate(m) ==
    IF m.Point < m.MaxPoint /\ m.Point < m.AllocatedPoint
    THEN [m EXCEPT !.Point = m.Point + 1]
    ELSE m

IncreasePoint_UpToAllocated(m) ==
    IF m.Point < m.MaxPoint /\ m.Point <= m.AllocatedPoint
    THEN UpdateUnlockStatus([m EXCEPT !.Point = m.Point + 1])
    ELSE m

IncreasePoint_NoAllocCap(m) ==
    IF m.Point < m.MaxPoint
    THEN UpdateUnlockStatus([m EXCEPT !.Point = m.Point + 1])
    ELSE m

IncreasePoint_EitherCap(m) ==
    IF m.Point < m.MaxPoint \/ m.Point < m.AllocatedPoint
    THEN UpdateUnlockStatus([m EXCEPT !.Point = m.Point + 1])
    ELSE m

IncreasePoint(m) ==
    IF m.Point < m.MaxPoint /\ m.Point < m.AllocatedPoint
    THEN UpdateUnlockStatus([m EXCEPT !.Point = m.Point + 1])
    ELSE m

\* Mutants of DecreasePoint: the point released from the allocation as well
\* (--AllocatedPoint); UpdateUnlockStatus() not called.
DecreasePoint_ReleasesAllocation(m) ==
    IF m.Point > 0
    THEN UpdateUnlockStatus([m EXCEPT !.Point = m.Point - 1,
                                      !.AllocatedPoint = m.AllocatedPoint - 1])
    ELSE m

DecreasePoint_NoUpdate(m) ==
    IF m.Point > 0
    THEN [m EXCEPT !.Point = m.Point - 1]
    ELSE m

DecreasePoint(m) ==
    IF m.Point > 0
    THEN UpdateUnlockStatus([m EXCEPT !.Point = m.Point - 1])
    ELSE m

\* Every value the four UPROPERTY fields of a record can be given from outside
\* (EditAnywhere, BlueprintReadWrite; ClampMin 0, 1 and 0), within the bound.
Records ==
    [bUnlocked : BOOLEAN, Point : 0..MaxVal,
     MaxPoint : (1..MaxVal) \cup {5}, AllocatedPoint : 0..MaxVal]

\* The records that satisfy the data model's invariant.
ValidRecords ==
    {m \in Records : /\ m.Point <= Min(m.MaxPoint, m.AllocatedPoint)
                     /\ m.bUnlocked = (m.Point > 0)}

(***************************************************************************)
(* The categories of the sheet and their enumerations, in declaration      *)
(* order: the first value is the sentinel Null, the last the sentinel Max. *)
(***************************************************************************)
LedgerCategories == {"Magical", "Crafting"}

EMagicalAbilityType == <<"Null", "Fireball", "IceShield", "Max">>

ECraftingAbilityType == <<"Null", "Blacksmithing", "Alchemy", "Max">>

EnumOf(c) == IF c = "Magical" THEN EMagicalAbilityType ELSE ECraftingAbilityType

EnumValues(c) == {EnumOf(c)[i] : i \in 1..Len(EnumOf(c))}

\* The constructor's loop: i from Null + 1 while i < Max.
ConstructedKeys(c) == {EnumOf(c)[i] : i \in 2..(Len(EnumOf(c)) - 1)}

NewCategory(c) == [t \in ConstructedKeys(c) |-> FAbilityModule]

\* A TMap is a function from the keys it holds; the empty map is <<>>.
IsEmpty(map) == DOMAIN map = {}

Contains(map, key) == key \in DOMAIN map

\* operator!= of two records. FAbilityModule declares no comparison in
\* AbilityData.h; AreMapsEqual needs one, taken here to compare field by field.
FAbilityModule_NotEqual(A, B) ==
    \/ A.bUnlocked # B.bUnlocked
    \/ A.Point # B.Point
    \/ A.MaxPoint # B.MaxPoint
    \/ A.AllocatedPoint # B.AllocatedPoint

\* Mutant of AreMapsEqual: the comparison of the sizes forgotten.
AreMapsEqual_NoSizeTest(MapA, MapB) ==
    \A k \in DOMAIN MapA :
        ~(~Contains(MapB, k) \/ FAbilityModule_NotEqual(MapB[k], MapA[k]))

\* AreMapsEqual(MapA, MapB): Num() against Num(), then every pair of MapA is
\* looked up in MapB with Find and the values are compared with !=.
AreMapsEqual(MapA, MapB) ==
    IF Cardinality(DOMAIN MapA) # Cardinality(DOMAIN MapB)
    THEN FALSE
    ELSE \A k \in DOMAIN MapA :
             ~(~Contains(MapB, k) \/ FAbilityModule_NotEqual(MapB[k], MapA[k]))

(***************************************************************************)
(* The history variables.                                                  *)
(***************************************************************************)
Snapshot ==
    [Abilities |-> Abilities, Summary |-> Summary, Storage |-> Storage, fault |-> fault]

\* The bookkeeping of one call: what was called, what it returned and the
\* state it found.
Called(op, c, id, r) ==
    /\ call' = [op |-> op, cat |-> c, id |-> id]
    /\ ret' = r
    /\ prev' = Snapshot
    /\ streak' = [n |-> 0, start |-> Snapshot]

\* The same for the calls whose repetition is followed: streak counts how many
\* times in a row this same call has now been made and keeps the state the
\* first of them found.
CalledAgain(op, c, id) ==
    LET same == call.op = op /\ call.cat = c /\ call.id = id
    IN  /\ same => streak.n < MaxStreak
        /\ call' = [op |-> op, cat |-> c, id |-> id]
        /\ ret' = "void"
        /\ prev' = Snapshot
        /\ streak' = IF same
                     THEN [n |-> streak.n + 1, start |-> streak.start]
                     ELSE [n |-> 1, start |-> Snapshot]

(***************************************************************************)
(* FMagicalAbility, FCraftingAbility, ...: the operations of a category.   *)
(***************************************************************************)
\* Mutant of ValidateAbilityByType: the Contains test forgotten.
ValidateAbilityByType_EmptyOnly(c, Type) ==
    IF IsEmpty(Abilities[c]) THEN FALSE ELSE TRUE

ValidateAbilityByType(c, Type) ==
    IF IsEmpty(Abilities[c]) THEN FALSE
    ELSE IF ~Contains(Abilities[c], Type) THEN FALSE
    ELSE TRUE

CallValidateAbilityByType(c, Type) ==
    /\ Called("ValidateAbilityByType", c, Type, ValidateAbilityByType(c, Type))
    /\ UNCHANGED <<Abilities, Summary, Storage, fault>>

\* Mutant of ResetAbilityByType: MagicalAbilities.FindOrAdd(Type).Reset()
\* with no validation.
ResetAbilityByType_FindOrAdd(c, Type) ==
    /\ Called("ResetAbilityByType", c, Type, "void")
    /\ LET map == Abilities[c]
       IN  Abilities' = [Abilities EXCEPT ![c] =
               [k \in DOMAIN map \cup {Type} |->
                   IF k = Type
                   THEN Reset(IF Contains(map, Type) THEN map[Type] ELSE FAbilityModule)
                   ELSE map[k]]]
    /\ UNCHANGED <<Summary, Storage, fault>>

\* MagicalAbilities[Type]: TMap::operator[] requires the key to be present.
ResetAbilityByType(c, Type) ==
    /\ CalledAgain("ResetAbilityByType", c, Type)
    /\ IF ValidateAbilityByType(c, Type)
       THEN IF Contains(Abilities[c], Type)
            THEN /\ Abilities' = [Abilities EXCEPT ![c][Type] = Reset(@)]
                 /\ UNCHANGED fault
            ELSE fault' = TRUE /\ UNCHANGED Abilities
       ELSE UNCHANGED <<Abilities, fault>>
    /\ UNCHANGED <<Summary, Storage>>

IncreaseAbilityByType(c, Type) ==
    /\ CalledAgain("IncreaseAbilityByType", c, Type)
    /\ IF ValidateAbilityByType(c, Type)
       THEN IF Contains(Abilities[c], Type)
            THEN /\ Abilities' = [Abilities EXCEPT ![c][Type] = IncreasePoint(@)]
                 /\ UNCHANGED fault
            ELSE fault' = TRUE /\ UNCHANGED Abilities
       ELSE UNCHANGED <<Abilities, fault>>
    /\ UNCHANGED <<Summary, Storage>>

DecreaseAbilityByType(c, Type) ==
    /\ Called("DecreaseAbilityByType", c, Type, "void")
    /\ IF ValidateAbilityByType(c, Type)
       THEN IF Contains(Abilities[c], Type)
            THEN /\ Abilities' = [Abilities EXCEPT ![c][Type] = DecreasePoint(@)]
                 /\ UNCHANGED fault
            ELSE fault' = TRUE /\ UNCHANGED Abilities
       ELSE UNCHANGED <<Abilities, fault>>
    /\ UNCHANGED <<Summary, Storage>>

LedgerOp ==
    \E c \in LedgerCategories : \E Type \in EnumValues(c) :
        \/ CallValidateAbilityByType(c, Type)
        \/ ResetAbilityByType(c, Type)
        \/ IncreaseAbilityByType(c, Type)
        \/ DecreaseAbilityByType(c, Type)

(***************************************************************************)
(* Initial states.                                                         *)
(***************************************************************************)
NoCall == [op |-> "Construct", cat |-> "", id |-> ""]

\* The history of a program that has made no call yet.
InitHistory ==
    /\ fault = FALSE
    /\ call = NoCall
    /\ ret = "void"
    /\ prev = Snapshot
    /\ streak = [n |-> 0, start |-> Snapshot]

\* FAbility(): every category constructed, the counters 0.
InitSheet ==
    /\ Abilities = [c \in LedgerCategories |-> NewCategory(c)]
    /\ Summary = [AbilityPoints |-> 0, MaxAbilityPoints |-> 0, AllocatedPoints |-> 0]

\* UAbilityComponent(): the four maps empty.
InitComponent == Storage = [c \in {"Combat", "Support", "Movement", "Control"} |-> <<>>]

Init == InitSheet /\ InitComponent /\ InitHistory

\* A constructed sheet one of whose records holds values written from outside
\* that satisfy the record's invariant.
InitValid ==
    /\ \E c \in LedgerCategories : \E t \in ConstructedKeys(c) : \E m \in ValidRecords :
          Abilities = [d \in LedgerCategories |->
                          IF d = c THEN [NewCategory(c) EXCEPT ![t] = m] ELSE NewCategory(d)]
    /\ Summary = [AbilityPoints |-> 0, MaxAbilityPoints |-> 0, AllocatedPoints |-> 0]
    /\ InitComponent
    /\ InitHistory

SpecValid == InitValid /\ [][LedgerOp]_vars

\* A constructed sheet one of whose records holds any values written from
\* outside (the fields are EditAnywhere, BlueprintReadWrite properties).
InitEdited ==
    /\ \E c \in LedgerCategories : \E t \in ConstructedKeys(c) : \E m \in Records :
          Abilities = [d \in LedgerCategories |->
                          IF d = c THEN [NewCategory(c) EXCEPT ![t] = m] ELSE NewCategory(d)]
    /\ Summary = [AbilityPoints |-> 0, MaxAbilityPoints |-> 0, AllocatedPoints |-> 0]
    /\ InitComponent
    /\ InitHistory

SpecSheet == InitEdited /\ [][LedgerOp]_vars

(***************************************************************************)
(* The accessors of a category, its equality, and the bulk replacement of  *)
(* its map.                                                                *)
(***************************************************************************)
\* The maps handed to SetAbilities and to operator==: any subset of the
\* constructed keys, under each key the same record.
InputRecords == {FAbilityModule, [FAbilityModule EXCEPT !.AllocatedPoint = 1]}

InputMaps(c) ==
    {[k \in K |-> m] : K \in SUBSET ConstructedKeys(c), m \in InputRecords}

\* FAbility::SetMagicalAbilities -> FMagicalAbility::SetAbilities.
SetAbilities(c, NewAbilities) ==
    /\ Called("SetAbilities", c, NewAbilities, "void")
    /\ Abilities' = [Abilities EXCEPT ![c] = NewAbilities]
    /\ UNCHANGED <<Summary, Storage, fault>>

CallGetAbilities(c) ==
    /\ Called("GetAbilities", c, "", Abilities[c])
    /\ UNCHANGED <<Abilities, Summary, Storage, fault>>

\* operator==(Other); operator!= is its negation.
CallEquals(c, Other) ==
    /\ Called("operator==", c, Other, AreMapsEqual(Abilities[c], Other))
    /\ UNCHANGED <<Abilities, Summary, Storage, fault>>

\* operator!=(Other): !(*this == Other).
CallNotEquals(c, Other) ==
    /\ Called("operator!=", c, Other, ~AreMapsEqual(Abilities[c], Other))
    /\ UNCHANGED <<Abilities, Summary, Storage, fault>>

ReplaceOp ==
    \E c \in LedgerCategories :
        \/ CallGetAbilities(c)
        \/ \E NewAbilities \in InputMaps(c) : SetAbilities(c, NewAbilities)
        \/ \E Other \in InputMaps(c) : CallEquals(c, Other)

SpecReplace == Init /\ [][LedgerOp \/ ReplaceOp]_vars

\* The records of the categories that are compared: each field at its lowest
\* or at another value, in every combination.
ComparedRecords ==
    [bUnlocked : BOOLEAN, Point : {0, MaxVal},
     MaxPoint : {MaxVal, 5}, AllocatedPoint : {0, MaxVal}]

\* The categories a category is compared with: a constructed one with one
\* record of ComparedRecords, and those of InputMaps.
ComparedMaps(c) ==
    {[NewCategory(c) EXCEPT ![t] = m] : t \in ConstructedKeys(c), m \in ComparedRecords}
        \cup InputMaps(c)

EqualsOp ==
    \E c \in LedgerCategories : \E Other \in ComparedMaps(c) :
        \/ CallEquals(c, Other)
        \/ CallNotEquals(c, Other)

\* A sheet one of whose categories holds a map of ComparedMaps, stored from
\* outside.
InitCompared ==
    /\ \E c \in LedgerCategories : \E map \in ComparedMaps(c) :
          Abilities = [d \in LedgerCategories |-> IF d = c THEN map ELSE NewCategory(d)]
    /\ Summary = [AbilityPoints |-> 0, MaxAbilityPoints |-> 0, AllocatedPoints |-> 0]
    /\ InitComponent
    /\ InitHistory

SpecEquals == InitCompared /\ [][EqualsOp]_vars

(***************************************************************************)
(* UAbilityComponent and FAbilityData.                                     *)
(* Cooldown and EnergyCost are floats that no function reads or computes   *)
(* with; they are modelled by the numbers they hold.  Each enumeration is  *)
(* modelled with None and its first two abilities.                         *)
(***************************************************************************)
FacadeCategories == {"Combat", "Support", "Movement", "Control"}

ECombatAbility == <<"None", "Melee", "Ranged">>

ESupportAbility == <<"None", "Heal", "Shield">>

EMovementAbility == <<"None", "Dash", "Teleport">>

EControlAbility == <<"None", "Stun", "Freeze">>

AbilityEnumOf(c) ==
    CASE c = "Combat" -> ECombatAbility
      [] c = "Support" -> ESupportAbility
      [] c = "Movement" -> EMovementAbility
      [] c = "Control" -> EControlAbility

AbilityValues(c) == {AbilityEnumOf(c)[i] : i \in 1..Len(AbilityEnumOf(c))}

\* EAbilityLevel::Max. The enumeration is not among the files; the value
\* stands for whatever its last level is.
EAbilityLevel_Max == 3

FAbilityData ==
    [Cooldown |-> 0, EnergyCost |-> 0, bUnlocked |-> FALSE, Level |-> 1, Description |-> ""]

\* const FAbilityData* Found = CombatAbilities.Find(Ability);
\* return Found ? *Found : FAbilityData();
GetAbility(c, Ability) ==
    IF Contains(Storage[c], Ability) THEN Storage[c][Ability] ELSE FAbilityData

IsAbilityUnlocked(c, Ability) ==
    IF Contains(Storage[c], Ability) THEN Storage[c][Ability].bUnlocked ELSE FALSE

\* Mutants of ApplyUnlock: the flag toggled; the level reset with it.
ApplyUnlock_Toggle(Ability) == [Ability EXCEPT !.bUnlocked = ~Ability.bUnlocked]

ApplyUnlock_ResetsLevel(Ability) == [Ability EXCEPT !.bUnlocked = TRUE, !.Level = 1]

ApplyUnlock(Ability) == [Ability EXCEPT !.bUnlocked = TRUE]

\* Mutant of ApplyUpgrade: <= for <.
ApplyUpgrade_OffByOne(Ability) ==
    IF Ability.bUnlocked
    THEN IF Ability.Level <= EAbilityLevel_Max
         THEN [Ability EXCEPT !.Level = Ability.Level + 1]
         ELSE Ability
    ELSE Ability

\* Current + 1 is computed under Current < Max: it cannot overflow int32.
ApplyUpgrade(Ability) ==
    IF Ability.bUnlocked
    THEN IF Ability.Level < EAbilityLevel_Max
         THEN [Ability EXCEPT !.Level = Ability.Level + 1]
         ELSE Ability
    ELSE Ability

\* Mutant of CallGetAbility: CombatAbilities.FindOrAdd(Ability) for Find.
CallGetAbility_FindOrAdd(c, Ability) ==
    /\ Called("GetAbility", c, Ability, GetAbility(c, Ability))
    /\ LET map == Storage[c]
       IN  Storage' = [Storage EXCEPT ![c] =
               [k \in DOMAIN map \cup {Ability} |->
                   IF Contains(map, k) THEN map[k] ELSE FAbilityData]]
    /\ UNCHANGED <<Abilities, Summary, fault>>

CallGetAbility(c, Ability) ==
    /\ Called("GetAbility", c, Ability, GetAbility(c, Ability))
    /\ UNCHANGED <<Abilities, Summary, Storage, fault>>

CallIsAbilityUnlocked(c, Ability) ==
    /\ Called("IsAbilityUnlocked", c, Ability, IsAbilityUnlocked(c, Ability))
    /\ UNCHANGED <<Abilities, Summary, Storage, fault>>

\* Mutant of UnlockAbility: CombatAbilities.FindOrAdd(Ability).
UnlockAbility_FindOrAdd(c, Ability) ==
    /\ Called("UnlockAbility", c, Ability, "void")
    /\ LET map == Storage[c]
       IN  Storage' = [Storage EXCEPT ![c] =
               [k \in DOMAIN map \cup {Ability} |->
                   IF k = Ability
                   THEN ApplyUnlock(IF Contains(map, Ability) THEN map[Ability] ELSE FAbilityData)
                   ELSE map[k]]]
    /\ UNCHANGED <<Abilities, Summary, fault>>

\* Mutant of UnlockAbility: ApplyUnlock(CombatAbilities[Ability]) with no Find.
UnlockAbility_Indexed(c, Ability) ==
    /\ Called("UnlockAbility", c, Ability, "void")
    /\ IF Contains(Storage[c], Ability)
       THEN /\ Storage' = [Storage EXCEPT ![c][Ability] = ApplyUnlock(@)]
            /\ UNCHANGED fault
       ELSE fault' = TRUE /\ UNCHANGED Storage
    /\ UNCHANGED <<Abilities, Summary>>

UnlockAbility(c, Ability) ==
    /\ Called("UnlockAbility", c, Ability, "void")
    /\ IF Contains(Storage[c], Ability)
       THEN Storage' = [Storage EXCEPT ![c][Ability] = ApplyUnlock(@)]
       ELSE UNCHANGED Storage
    /\ UNCHANGED <<Abilities, Summary, fault>>

UpgradeAbility(c, Ability) ==
    /\ CalledAgain("UpgradeAbility", c, Ability)
    /\ IF Contains(Storage[c], Ability)
       THEN Storage' = [Storage EXCEPT ![c][Ability] = ApplyUpgrade(@)]
       ELSE UNCHANGED Storage
    /\ UNCHANGED <<Abilities, Summary, fault>>

FacadeOp ==
    \E c \in FacadeCategories : \E Ability \in AbilityValues(c) :
        \/ CallGetAbility(c, Ability)
        \/ CallIsAbilityUnlocked(c, Ability)
        \/ UnlockAbility(c, Ability)
        \/ UpgradeAbility(c, Ability)

\* The whole program as constructed: the sheet's categories hold their default
\* records and the component's maps are empty.
Next == LedgerOp \/ FacadeOp

Spec == Init /\ [][Next]_vars

\* The entries an external initialiser stores in a map of the component (the
\* maps are EditAnywhere, BlueprintReadWrite properties that no code fills).
Entries ==
    [Cooldown : {2}, EnergyCost : {3}, bUnlocked : BOOLEAN,
     Level : 1..EAbilityLevel_Max, Description : {"text"}]

\* A component one of whose maps was filled from outside: at most two keys,
\* the same entry under each.
InitPopulated ==
    /\ InitSheet
    /\ \E c \in FacadeCategories : \E K \in SUBSET AbilityValues(c) : \E e \in Entries :
          /\ Cardinality(K) <= 2
          /\ Storage = [d \in FacadeCategories |-> IF d = c THEN [k \in K |-> e] ELSE <<>>]
    /\ InitHistory

SpecComponent == InitPopulated /\ [][FacadeOp]_vars

\* A sheet one of whose categories holds a map stored from outside (any of
\* InputMaps, the empty map among them), next to a component whose Combat
\* map holds one entry, stored with its defaults, and whose other maps are
\* empty; every operation by id of a category and of the component may be
\* called.
InitLoaded ==
    /\ \E c \in LedgerCategories : \E map \in InputMaps(c) :
          Abilities = [d \in LedgerCategories |-> IF d = c THEN map ELSE NewCategory(d)]
    /\ Summary = [AbilityPoints |-> 0, MaxAbilityPoints |-> 0, AllocatedPoints |-> 0]
    /\ \E a \in AbilityValues("Combat") :
          Storage = [d \in FacadeCategories |->
                        IF d = "Combat" THEN [k \in {a} |-> FAbilityData] ELSE <<>>]
    /\ InitHistory

SpecCalls == InitLoaded /\ [][Next]_vars

(***************************************************************************)
(* FAbility: the sheet.  Its counters are int32; the setters store what    *)
(* they are given and nothing computes with the counters.                  *)
(***************************************************************************)
\* The largest value stored in a counter of the sheet.
MaxCounter == 1

\* The values given to the setters: a negative one, 0, and positive ones.
CounterValues == (0 - 1)..MaxCounter

GetAbilityPoints ==
    /\ Called("GetAbilityPoints", "", "", Summary.AbilityPoints)
    /\ UNCHANGED <<Abilities, Summary, Storage, fault>>

GetMaxAbilityPoints ==
    /\ Called("GetMaxAbilityPoints", "", "", Summary.MaxAbilityPoints)
    /\ UNCHANGED <<Abilities, Summary, Storage, fault>>

GetAllocatedPoints ==
    /\ Called("GetAllocatedPoints", "", "", Summary.AllocatedPoints)
    /\ UNCHANGED <<Abilities, Summary, Storage, fault>>

\* Mutant of SetAbilityPoints: the value clamped to 0..MaxAbilityPoints.
SetAbilityPoints_Clamped(NewPoints) ==
    /\ Called("SetAbilityPoints", "", NewPoints, "void")
    /\ Summary' = [Summary EXCEPT !.AbilityPoints =
                       IF NewPoints < 0 THEN 0
                       ELSE Min(NewPoints, Summary.MaxAbilityPoints)]
    /\ UNCHANGED <<Abilities, Storage, fault>>

SetAbilityPoints(NewPoints) ==
    /\ Called("SetAbilityPoints", "", NewPoints, "void")
    /\ Summary' = [Summary EXCEPT !.AbilityPoints = NewPoints]
    /\ UNCHANGED <<Abilities, Storage, fault>>

SetMaxAbilityPoints(NewMaxPoints) ==
    /\ Called("SetMaxAbilityPoints", "", NewMaxPoints, "void")
    /\ Summary' = [Summary EXCEPT !.MaxAbilityPoints = NewMaxPoints]
    /\ UNCHANGED <<Abilities, Storage, fault>>

SetAllocatedPoints(NewAllocatedPoints) ==
    /\ Called("SetAllocatedPoints", "", NewAllocatedPoints, "void")
    /\ Summary' = [Summary EXCEPT !.AllocatedPoints = NewAllocatedPoints]
    /\ UNCHANGED <<Abilities, Storage, fault>>

\* IncreaseAbilityPoint(Ability, Type) and DecreaseAbilityPoint(Ability,
\* Type), with Ability one of the sheet's categories: the call is forwarded.
IncreaseAbilityPoint(c, Type) == IncreaseAbilityByType(c, Type)

DecreaseAbilityPoint(c, Type) == DecreaseAbilityByType(c, Type)

SheetOp ==
    \/ GetAbilityPoints
    \/ GetMaxAbilityPoints
    \/ GetAllocatedPoints
    \/ \E v \in CounterValues :
          \/ SetAbilityPoints(v)
          \/ SetMaxAbilityPoints(v)
          \/ SetAllocatedPoints(v)
    \/ \E c \in LedgerCategories : \E Type \in EnumValues(c) :
          \/ IncreaseAbilityPoint(c, Type)
          \/ DecreaseAbilityPoint(c, Type)
          \/ ResetAbilityByType(c, Type)

\* A constructed sheet one of whose records was given MaxVal allocated
\* points from outside.
InitAllocated ==
    /\ \E c \in LedgerCategories : \E t \in ConstructedKeys(c) :
          Abilities = [d \in LedgerCategories |->
                          IF d = c
                          THEN [NewCategory(c) EXCEPT ![t].AllocatedPoint = MaxVal]
                          ELSE NewCategory(d)]
    /\ Summary = [AbilityPoints |-> 0, MaxAbilityPoints |-> 0, AllocatedPoints |-> 0]
    /\ InitComponent
    /\ InitHistory

SpecCounters == InitAllocated /\ [][SheetOp]_vars

\* Mutant of SheetEquals: AllocatedPoints left out of the conjunction.
SheetEquals_NoAllocatedPoints(Other) ==
    /\ \A c \in LedgerCategories : AreMapsEqual(Abilities[c], Other.Abilities[c])
    /\ Summary.AbilityPoints = Other.Summary.AbilityPoints
    /\ Summary.MaxAbilityPoints = Other.Summary.MaxAbilityPoints

\* FAbility::operator==: every category == its counterpart, && the three
\* counters.
SheetEquals(Other) ==
    /\ \A c \in LedgerCategories : AreMapsEqual(Abilities[c], Other.Abilities[c])
    /\ Summary.AbilityPoints = Other.Summary.AbilityPoints
    /\ Summary.MaxAbilityPoints = Other.Summary.MaxAbilityPoints
    /\ Summary.AllocatedPoints = Other.Summary.AllocatedPoints

CallSheetEquals(Other) ==
    /\ Called("FAbility::operator==", "", Other, SheetEquals(Other))
    /\ UNCHANGED <<Abilities, Summary, Storage, fault>>

\* FAbility::operator!=: !(*this == Other).
CallSheetNotEquals(Other) ==
    /\ Called("FAbility::operator!=", "", Other, ~SheetEquals(Other))
    /\ UNCHANGED <<Abilities, Summary, Storage, fault>>

\* The sheets a sheet is compared with: a copy of itself, a copy with one
\* counter set to another value, a copy with one field of one record set to
\* another value, a copy with one category replaced by a map of InputMaps,
\* and a constructed sheet.
ComparedSheets ==
    {[Abilities |-> Abilities, Summary |-> Summary]}
    \cup {[Abilities |-> Abilities, Summary |-> [Summary EXCEPT ![f] = v]] :
              f \in DOMAIN Summary, v \in CounterValues}
    \cup UNION {UNION {{[Abilities |-> [Abilities EXCEPT ![c][t] = m], Summary |-> Summary] :
                          m \in {[Abilities[c][t] EXCEPT !.bUnlocked = ~@],
                                 [Abilities[c][t] EXCEPT !.Point = MaxVal],
                                 [Abilities[c][t] EXCEPT !.MaxPoint = MaxVal],
                                 [Abilities[c][t] EXCEPT !.AllocatedPoint = MaxVal]}} :
                       t \in DOMAIN Abilities[c]} :
                    c \in LedgerCategories}
    \cup UNION {{[Abilities |-> [Abilities EXCEPT ![c] = map], Summary |-> Summary] :
                   map \in InputMaps(c)} : c \in LedgerCategories}
    \cup {[Abilities |-> [c \in LedgerCategories |-> NewCategory(c)],
           Summary |-> [AbilityPoints |-> 0, MaxAbilityPoints |-> 0, AllocatedPoints |-> 0]]}

SheetEqualsOp ==
    \E Other \in ComparedSheets :
        \/ CallSheetEquals(Other)
        \/ CallSheetNotEquals(Other)

\* A sheet stored from outside: one of its categories holds a map of
\* InputMaps and each counter holds 0 or MaxCounter.
InitSheets ==
    /\ \E c \in LedgerCategories : \E map \in InputMaps(c) :
          Abilities = [d \in LedgerCategories |-> IF d = c THEN map ELSE NewCategory(d)]
    /\ Summary \in [AbilityPoints : {0, MaxCounter}, MaxAbilityPoints : {0, MaxCounter},
                     AllocatedPoints : {0, MaxCounter}]
    /\ InitComponent
    /\ InitHistory

SpecSheetEquals == InitSheets /\ [][SheetEqualsOp]_vars

(***************************************************************************)
(* The claims.  In each, the record or entry the last call named is read   *)
(* in three states: streak.start (before the first call of the run), prev  *)
(* (before the last call) and the current state.                           *)
(***************************************************************************)
LedgerCalls ==
    {"ValidateAbilityByType", "ResetAbilityByType",
     "IncreaseAbilityByType", "DecreaseAbilityByType"}

\* The last call was op, on a key the category's map held.
OnPresent(op) ==
    /\ call.op = op
    /\ call.id \in DOMAIN prev.Abilities[call.cat]

\* Everything but the record under the last call's key is as it was.
OnlyCalledRecordChanged ==
    /\ Abilities = [prev.Abilities EXCEPT ![call.cat][call.id] = Abilities[call.cat][call.id]]
    /\ Summary = prev.Summary
    /\ Storage = prev.Storage
    /\ fault = prev.fault

RecordInvariant(m) ==
    /\ 0 <= m.Point
    /\ m.Point <= Min(m.MaxPoint, m.AllocatedPoint)
    /\ m.bUnlocked <=> (m.Point > 0)

\* C1: a record that starts at its default (or in any other state that
\* satisfies the invariant) satisfies 0 <= Point <= min(MaxPoint,
\* AllocatedPoint) and bUnlocked <=> Point > 0 after every sequence of
\* Reset, IncreasePoint and DecreasePoint calls.
C1_RecordInvariant ==
    \A c \in LedgerCategories : \A t \in DOMAIN Abilities[c] :
        RecordInvariant(Abilities[c][t])

\* A default record that two IncreasePoint calls in a row have acted on.
C1_Witness ==
    /\ OnPresent("IncreaseAbilityByType")
    /\ streak.n = 2
    /\ streak.start.Abilities[call.cat][call.id] = FAbilityModule
    /\ Abilities[call.cat][call.id] = FAbilityModule

C3_Decrease ==
    OnPresent("DecreaseAbilityByType") =>
        LET p == prev.Abilities[call.cat][call.id]
            m == Abilities[call.cat][call.id]
        IN  /\ p.Point = 0 => m = p
            /\ p.Point > 0 =>
                  /\ m.Point = p.Point - 1
                  /\ m.MaxPoint = p.MaxPoint
                  /\ m.AllocatedPoint = p.AllocatedPoint
                  /\ (m.bUnlocked = FALSE) <=> (m.Point = 0)
                  /\ (p.bUnlocked /\ m.Point > 0) => m.bUnlocked

\* The call that takes an unlocked record from Point = 1 to 0 and locks it.
C3_Witness ==
    /\ OnPresent("DecreaseAbilityByType")
    /\ prev.Abilities[call.cat][call.id].Point = 1
    /\ prev.Abilities[call.cat][call.id].bUnlocked
    /\ Abilities[call.cat][call.id].Point = 0
    /\ ~Abilities[call.cat][call.id].bUnlocked

\* C4: after Reset the record is locked with Point = 0, AllocatedPoint = 0
\* and MaxPoint = 5, whatever it held; the call returns nothing and faults
\* nowhere.
C4_Reset ==
    OnPresent("ResetAbilityByType") =>
        /\ Abilities[call.cat][call.id] =
               [bUnlocked |-> FALSE, Point |-> 0, MaxPoint |-> 5, AllocatedPoint |-> 0]
        /\ ret = "void"
        /\ ~fault

\* Reset of a record that differed from the default in every field.
C4_Witness ==
    /\ OnPresent("ResetAbilityByType")
    /\ LET p == prev.Abilities[call.cat][call.id]
       IN  p.bUnlocked /\ p.Point > 0 /\ p.MaxPoint # 5 /\ p.AllocatedPoint > 0
    /\ Abilities[call.cat][call.id] = FAbilityModule

\* C5: for an id that is not a key of the category's map (a sentinel, an
\* ability the map lacks, any id when the map is empty),
\* ValidateAbilityByType returns false and Reset-, Increase- and
\* DecreaseAbilityByType change nothing: no record, no key set, no other
\* state.
C5_UnknownId ==
    (call.op \in LedgerCalls /\ call.id \notin DOMAIN prev.Abilities[call.cat]) =>
        /\ call.op = "ValidateAbilityByType" => ret = FALSE
        /\ Abilities = prev.Abilities
        /\ Summary = prev.Summary
        /\ Storage = prev.Storage
        /\ fault = prev.fault

\* IncreaseAbilityByType with an ability that a map holding other keys lacks.
C5_Witness ==
    /\ call.op = "IncreaseAbilityByType"
    /\ call.id \in ConstructedKeys(call.cat)
    /\ call.id \notin DOMAIN prev.Abilities[call.cat]
    /\ ~IsEmpty(prev.Abilities[call.cat])
    /\ \E t \in DOMAIN Abilities[call.cat] : Abilities[call.cat][t].AllocatedPoint > 0

\* C6 (as amended): ValidateAbilityByType, Reset-, Increase- and
\* DecreaseAbilityByType, operator== and GetAbilities leave the key set of
\* every category's map as it was, which after construction is the
\* enumeration without Null and Max; SetAbilities gives the category the key
\* set of the map it is handed and leaves the other categories' key sets.
C6_KeysKept ==
    /\ call = NoCall =>
          \A c \in LedgerCategories : DOMAIN Abilities[c] = ConstructedKeys(c)
    /\ call.op \in LedgerCalls \cup {"operator==", "GetAbilities"} =>
          \A c \in LedgerCategories : DOMAIN Abilities[c] = DOMAIN prev.Abilities[c]
    /\ call.op = "SetAbilities" =>
          \A c \in LedgerCategories :
              DOMAIN Abilities[c] =
                  IF c = call.cat THEN DOMAIN call.id ELSE DOMAIN prev.Abilities[c]

\* ResetAbilityByType with an ability that a replaced map lacks: the key set
\* stays the replaced one.
C6_Witness ==
    /\ call.op = "ResetAbilityByType"
    /\ call.id \in ConstructedKeys(call.cat)
    /\ DOMAIN prev.Abilities[call.cat] = ConstructedKeys(call.cat) \ {call.id}
    /\ DOMAIN Abilities[call.cat] = ConstructedKeys(call.cat) \ {call.id}

\* C6 as claimed: in every reachable state the key set of every category's
\* map is the enumeration without Null and Max.
C6_Original ==
    \A c \in LedgerCategories : DOMAIN Abilities[c] = ConstructedKeys(c)

\* C7 (as amended): on a component whose maps are empty IsAbilityUnlocked
\* returns false, UnlockAbility changes nothing (the ability is absent), and
\* IsAbilityUnlocked still returns false after it.
C7_EmptyStaysLocked ==
    /\ call.op = "IsAbilityUnlocked" => ret = FALSE
    /\ call.op = "UnlockAbility" =>
          /\ Storage = prev.Storage
          /\ ~IsAbilityUnlocked(call.cat, call.id)
    /\ \A c \in FacadeCategories : IsEmpty(Storage[c])

\* UnlockCombatAbility(Melee) was called on the empty maps.
C7_Witness ==
    /\ call = [op |-> "UnlockAbility", cat |-> "Combat", id |-> "Melee"]
    /\ IsEmpty(prev.Storage["Combat"])
    /\ ~IsAbilityUnlocked("Combat", "Melee")

\* C7 as claimed: after UnlockCombatAbility(Melee) on the empty maps,
\* IsCombatAbilityUnlocked(Melee) returns true.
C7_Original ==
    (/\ call = [op |-> "UnlockAbility", cat |-> "Combat", id |-> "Melee"]
     /\ IsEmpty(prev.Storage["Combat"]))
        => IsAbilityUnlocked("Combat", "Melee")

\* C8: in every step of the component, an entry that is unlocked stays
\* unlocked, and an entry's level stays or grows by exactly 1; no entry
\* leaves its map.
C8_OneWay ==
    [][\A c \in FacadeCategories : \A a \in DOMAIN Storage[c] :
          /\ a \in DOMAIN Storage'[c]
          /\ Storage[c][a].bUnlocked => Storage'[c][a].bUnlocked
          /\ Storage'[c][a].Level \in {Storage[c][a].Level, Storage[c][a].Level + 1}]_vars

\* An upgrade has taken an unlocked entry from level 1 to level 2, in a map
\* that also holds an entry still locked.
C8_Witness ==
    /\ call.op = "UpgradeAbility"
    /\ call.id \in DOMAIN Storage[call.cat]
    /\ streak.n = 1
    /\ prev.Storage[call.cat][call.id].bUnlocked
    /\ prev.Storage[call.cat][call.id].Level = 1
    /\ Storage[call.cat][call.id].bUnlocked
    /\ Storage[call.cat][call.id].Level = 2
    /\ \E a \in DOMAIN Storage[call.cat] : ~Storage[call.cat][a].bUnlocked

\* C9: UpgradeAbility adds 1 to the level of an entry that is present,
\* unlocked and below EAbilityLevel::Max, and changes nothing in every other
\* case; n upgrades in a row of an unlocked entry leave its level at
\* min(level + n, Max), and no level exceeds Max.
C9_Upgrade ==
    /\ call.op = "UpgradeAbility" =>
          LET c == call.cat
              a == call.id
          IN  IF /\ a \in DOMAIN prev.Storage[c]
                 /\ prev.Storage[c][a].bUnlocked
                 /\ prev.Storage[c][a].Level < EAbilityLevel_Max
              THEN Storage = [prev.Storage EXCEPT ![c][a].Level = @ + 1]
              ELSE Storage = prev.Storage
    /\ (/\ call.op = "UpgradeAbility"
        /\ call.id \in DOMAIN streak.start.Storage[call.cat]
        /\ streak.start.Storage[call.cat][call.id].bUnlocked) =>
          Storage[call.cat][call.id].Level =
              Min(streak.start.Storage[call.cat][call.id].Level + streak.n, EAbilityLevel_Max)
    /\ \A c \in FacadeCategories : \A a \in DOMAIN Storage[c] :
          Storage[c][a].Level <= EAbilityLevel_Max

\* An unlocked entry that started at level 1 was upgraded until the call
\* that found it at EAbilityLevel::Max and left it there.
C9_Witness ==
    /\ call.op = "UpgradeAbility"
    /\ call.id \in DOMAIN streak.start.Storage[call.cat]
    /\ streak.start.Storage[call.cat][call.id].bUnlocked
    /\ streak.start.Storage[call.cat][call.id].Level = 1
    /\ streak.n = EAbilityLevel_Max
    /\ prev.Storage[call.cat][call.id].Level = EAbilityLevel_Max
    /\ Storage[call.cat][call.id].Level = EAbilityLevel_Max

\* C10: UnlockAbility on a present id sets that entry's bUnlocked and changes
\* no other field of it, no other entry of the map and no other map; on an
\* absent id it changes nothing and adds no key.
C10_UnlockFrame ==
    call.op = "UnlockAbility" =>
        /\ IF call.id \in DOMAIN prev.Storage[call.cat]
           THEN Storage = [prev.Storage EXCEPT ![call.cat][call.id].bUnlocked = TRUE]
           ELSE Storage = prev.Storage
        /\ Abilities = prev.Abilities
        /\ Summary = prev.Summary

\* UnlockAbility of a locked entry above level 1 in a map of two entries.
C10_Witness ==
    /\ call.op = "UnlockAbility"
    /\ call.id \in DOMAIN prev.Storage[call.cat]
    /\ Cardinality(DOMAIN prev.Storage[call.cat]) = 2
    /\ ~prev.Storage[call.cat][call.id].bUnlocked
    /\ prev.Storage[call.cat][call.id].Level > 1
    /\ Storage[call.cat][call.id].bUnlocked

\* C11: GetAbility returns the stored entry of an id the map holds and
\* otherwise the default entry (Cooldown 0, EnergyCost 0, locked, Level 1,
\* empty Description); IsAbilityUnlocked returns the stored flag of an id
\* the map holds and otherwise false; neither changes a map, so that a read
\* of an absent id does not insert it.
C11_Reads ==
    /\ call.op = "GetAbility" =>
          ret = IF call.id \in DOMAIN prev.Storage[call.cat]
                THEN prev.Storage[call.cat][call.id]
                ELSE [Cooldown |-> 0, EnergyCost |-> 0, bUnlocked |-> FALSE,
                      Level |-> 1, Description |-> ""]
    /\ call.op = "IsAbilityUnlocked" =>
          ret = IF call.id \in DOMAIN prev.Storage[call.cat]
                THEN prev.Storage[call.cat][call.id].bUnlocked
                ELSE FALSE
    /\ call.op \in {"GetAbility", "IsAbilityUnlocked"} =>
          /\ Storage = prev.Storage
          /\ Abilities = prev.Abilities
          /\ Summary = prev.Summary
          /\ fault = prev.fault

\* GetAbility of an id that a map holding an unlocked entry lacks: the
\* default entry is returned and the id is still absent.
C11_Witness ==
    /\ call.op = "GetAbility"
    /\ call.id \notin DOMAIN Storage[call.cat]
    /\ \E a \in DOMAIN Storage[call.cat] :
          Storage[call.cat][a].bUnlocked /\ Storage[call.cat][a].Level > 1
    /\ ret = FAbilityData

\* C12: no call of GetAbility, IsAbilityUnlocked, UnlockAbility,
\* UpgradeAbility, ResetAbilityByType, IncreaseAbilityByType or
\* DecreaseAbilityByType faults, whatever enumeration value it is given
\* (sentinels and absent ids included) and whatever the maps hold (nothing
\* included): no map is indexed by a key it does not hold.
C12_NoFault == ~fault

\* DecreaseAbilityByType(Max) was called on a category whose map is empty,
\* next to a component whose entry has been unlocked.
C12_Witness ==
    /\ call.op = "DecreaseAbilityByType"
    /\ call.id = "Max"
    /\ IsEmpty(prev.Abilities[call.cat])
    /\ \E c \in FacadeCategories : \E a \in DOMAIN Storage[c] : Storage[c][a].bUnlocked
    /\ ~fault

\* C13: X == Y is true exactly if X and Y hold the same keys and under every
\* key records equal in bUnlocked, Point, MaxPoint and AllocatedPoint, and
\* X != Y is the negation; so two constructed categories are equal, and a
\* category whose one record differs from the other's in one field is not.
C13_Equality ==
    call.op \in {"operator==", "operator!="} =>
        LET X == prev.Abilities[call.cat]
            Y == call.id
            same == /\ DOMAIN X = DOMAIN Y
                    /\ \A k \in DOMAIN X :
                          /\ X[k].bUnlocked = Y[k].bUnlocked
                          /\ X[k].Point = Y[k].Point
                          /\ X[k].MaxPoint = Y[k].MaxPoint
                          /\ X[k].AllocatedPoint = Y[k].AllocatedPoint
        IN  /\ ret = IF call.op = "operator==" THEN same ELSE ~same
            /\ (X = NewCategory(call.cat) /\ Y = NewCategory(call.cat)) =>
                  ret = (call.op = "operator==")
            /\ Abilities = prev.Abilities

\* operator== returned false for two categories that differ in the MaxPoint
\* of one record and in nothing else.
C13_Witness ==
    /\ call.op = "operator=="
    /\ ret = FALSE
    /\ \E t \in DOMAIN Abilities[call.cat] :
          /\ DOMAIN call.id = DOMAIN Abilities[call.cat]
          /\ call.id[t].MaxPoint # Abilities[call.cat][t].MaxPoint
          /\ call.id = [Abilities[call.cat] EXCEPT ![t].MaxPoint = call.id[t].MaxPoint]

\* C14: S == T is true exactly if every category of S equals its counterpart
\* in T (same keys, records equal in every field) and AbilityPoints,
\* MaxAbilityPoints and AllocatedPoints are each equal; S != T is the
\* negation, so a difference in one record or in one counter makes S != T.
C14_SheetEquality ==
    call.op \in {"FAbility::operator==", "FAbility::operator!="} =>
        LET T == call.id
            same == /\ \A c \in LedgerCategories :
                          /\ DOMAIN Abilities[c] = DOMAIN T.Abilities[c]
                          /\ \A k \in DOMAIN Abilities[c] :
                                /\ Abilities[c][k].bUnlocked = T.Abilities[c][k].bUnlocked
                                /\ Abilities[c][k].Point = T.Abilities[c][k].Point
                                /\ Abilities[c][k].MaxPoint = T.Abilities[c][k].MaxPoint
                                /\ Abilities[c][k].AllocatedPoint =
                                       T.Abilities[c][k].AllocatedPoint
                    /\ Summary.AbilityPoints = T.Summary.AbilityPoints
                    /\ Summary.MaxAbilityPoints = T.Summary.MaxAbilityPoints
                    /\ Summary.AllocatedPoints = T.Summary.AllocatedPoints
        IN  /\ ret = IF call.op = "FAbility::operator==" THEN same ELSE ~same
            /\ Abilities = prev.Abilities
            /\ Summary = prev.Summary

\* operator!= returned true for two sheets that differ in AllocatedPoints
\* and in nothing else.
C14_Witness ==
    /\ call.op = "FAbility::operator!="
    /\ ret = TRUE
    /\ call.id.Abilities = Abilities
    /\ call.id.Summary.AllocatedPoints # Summary.AllocatedPoints
    /\ call.id.Summary = [Summary EXCEPT !.AllocatedPoints = call.id.Summary.AllocatedPoints]

\* C15: each setter of a counter stores exactly the value it is given
\* (negative, or AbilityPoints above MaxAbilityPoints) and changes neither
\* the other two counters nor a category; each getter returns the counter
\* as stored; and no other call (reset, increase, decrease of an ability)
\* changes a counter, so that a getter returns the last value set and the
\* counters need not be the sums over the records.
C15_Counters ==
    /\ call.op = "SetAbilityPoints" =>
          Summary = [prev.Summary EXCEPT !.AbilityPoints = call.id]
    /\ call.op = "SetMaxAbilityPoints" =>
          Summary = [prev.Summary EXCEPT !.MaxAbilityPoints = call.id]
    /\ call.op = "SetAllocatedPoints" =>
          Summary = [prev.Summary EXCEPT !.AllocatedPoints = call.id]
    /\ call.op = "GetAbilityPoints" => ret = prev.Summary.AbilityPoints
    /\ call.op = "GetMaxAbilityPoints" => ret = prev.Summary.MaxAbilityPoints
    /\ call.op = "GetAllocatedPoints" => ret = prev.Summary.AllocatedPoints
    /\ call.op \in {"SetAbilityPoints", "SetMaxAbilityPoints", "SetAllocatedPoints",
                     "GetAbilityPoints", "GetMaxAbilityPoints", "GetAllocatedPoints"} =>
          /\ Abilities = prev.Abilities
          /\ Storage = prev.Storage
    /\ call.op \notin {"SetAbilityPoints", "SetMaxAbilityPoints", "SetAllocatedPoints"} =>
          Summary = prev.Summary

\* SetAbilityPoints stored a value above MaxAbilityPoints, which is
\* negative, while a record of the sheet holds MaxVal points.
C15_Witness ==
    /\ call.op = "SetAbilityPoints"
    /\ call.id = MaxCounter
    /\ Summary.AbilityPoints = MaxCounter
    /\ prev.Summary.AbilityPoints # MaxCounter
    /\ Summary.MaxAbilityPoints < 0
    /\ \E c \in LedgerCategories : \E t \in DOMAIN Abilities[c] :
          Abilities[c][t].Point = MaxVal

\* C16: Reset applied to a record that Reset has just been applied to leaves
\* it as it is, whatever the record held before the first of the two; so a
\* second ResetAbilityByType(id) in a row changes nothing.
C16_ResetIdempotent ==
    (OnPresent("ResetAbilityByType") /\ streak.n >= 2) =>
        /\ Abilities = prev.Abilities
        /\ Abilities[call.cat][call.id] = Reset(streak.start.Abilities[call.cat][call.id])
        /\ Summary = prev.Summary
        /\ Storage = prev.Storage

\* The second ResetAbilityByType in a row of a record that differed from the
\* default in every field before the first.
C16_Witness ==
    /\ OnPresent("ResetAbilityByType")
    /\ streak.n = 2
    /\ LET s == streak.start.Abilities[call.cat][call.id]
       IN  s.bUnlocked /\ s.Point > 0 /\ s.MaxPoint # 5 /\ s.AllocatedPoint > 0
    /\ Abilities[call.cat][call.id] = FAbilityModule

\* C17 (as amended): IncreasePoint and DecreasePoint set bUnlocked to (Point >
\* 0) in the calls that change Point (an increase under Point < MaxPoint and
\* Point < AllocatedPoint, a decrease under Point > 0); a call that does not
\* change Point leaves bUnlocked as it was, whatever the record holds.
C17_FlagWhenPointChanges ==
    (OnPresent("IncreaseAbilityByType") \/ OnPresent("DecreaseAbilityByType")) =>
        LET p == prev.Abilities[call.cat][call.id]
            m == Abilities[call.cat][call.id]
            changes == IF call.op = "IncreaseAbilityByType"
                       THEN p.Point < p.MaxPoint /\ p.Point < p.AllocatedPoint
                       ELSE p.Point > 0
        IN  /\ changes => (m.Point # p.Point /\ m.bUnlocked = (m.Point > 0))
            /\ ~changes => (m.Point = p.Point /\ m.bUnlocked = p.bUnlocked)

\* DecreasePoint on a record written from outside with bUnlocked = true and
\* Point = 0: nothing changes and the record stays unlocked with no points.
C17_Witness ==
    /\ OnPresent("DecreaseAbilityByType")
    /\ prev.Abilities[call.cat][call.id].bUnlocked
    /\ prev.Abilities[call.cat][call.id].Point = 0
    /\ Abilities[call.cat][call.id].bUnlocked
    /\ Abilities[call.cat][call.id].Point = 0

\* C17 as claimed: after every call of IncreasePoint or DecreasePoint, on a
\* record with any field values, bUnlocked equals (Point > 0).
C17_Original ==
    (OnPresent("IncreaseAbilityByType") \/ OnPresent("DecreaseAbilityByType")) =>
        Abilities[call.cat][call.id].bUnlocked = (Abilities[call.cat][call.id].Point > 0)

\* C18: a record that is locked with Point = 0 and AllocatedPoint = 0, as
\* every record of a constructed category is and as every record is after
\* Reset, stays so in every step of ResetAbilityByType, IncreaseAbilityByType
\* and DecreaseAbilityByType: every increase is a no-op on it, and it cannot
\* be unlocked unless AllocatedPoint is written from outside.
C18_NeverUnlocked ==
    [][\A c \in LedgerCategories : \A t \in DOMAIN Abilities[c] :
          (/\ Abilities[c][t].AllocatedPoint = 0
           /\ Abilities[c][t].Point = 0
           /\ ~Abilities[c][t].bUnlocked) =>
              /\ t \in DOMAIN Abilities'[c]
              /\ Abilities'[c][t].AllocatedPoint = 0
              /\ Abilities'[c][t].Point = 0
              /\ ~Abilities'[c][t].bUnlocked]_vars

\* The third IncreaseAbilityByType in a row of a record of a constructed
\* category: it is still the default record, and so is every record that
\* started as one.
C18_Witness ==
    /\ OnPresent("IncreaseAbilityByType")
    /\ streak.n = 3
    /\ streak.start.Abilities[call.cat][call.id] = FAbilityModule
    /\ \A c \in LedgerCategories : \A t \in DOMAIN Abilities[c] :
          streak.start.Abilities[c][t] = FAbilityModule => Abilities[c][t] = FAbilityModule

\* C19: ResetAbilityByType, IncreaseAbilityByType and DecreaseAbilityByType
\* with an id that is a key of the category's map change at most the record
\* under that key (an increase or a decrease at most its Point and
\* bUnlocked, never MaxPoint or AllocatedPoint); the records under the other
\* keys, the key set, the other categories, the sheet's counters and the
\* component are as they were.
C19_Frame ==
    (\/ OnPresent("ResetAbilityByType")
     \/ OnPresent("IncreaseAbilityByType")
     \/ OnPresent("DecreaseAbilityByType")) =>
        LET p == prev.Abilities[call.cat][call.id]
            m == Abilities[call.cat][call.id]
        IN  /\ \A c \in LedgerCategories : DOMAIN Abilities[c] = DOMAIN prev.Abilities[c]
            /\ \A c \in LedgerCategories : \A t \in DOMAIN Abilities[c] :
                  (c # call.cat \/ t # call.id) => Abilities[c][t] = prev.Abilities[c][t]
            /\ call.op # "ResetAbilityByType" =>
                  /\ m.MaxPoint = p.MaxPoint
                  /\ m.AllocatedPoint = p.AllocatedPoint
            /\ Summary = prev.Summary
            /\ Storage = prev.Storage

\* A decrease that took a point from a record, in a category that holds
\* another record, on a sheet none of whose counters is 0.
C19_Witness ==
    /\ OnPresent("DecreaseAbilityByType")
    /\ Abilities[call.cat][call.id].Point = prev.Abilities[call.cat][call.id].Point - 1
    /\ Abilities[call.cat][call.id].AllocatedPoint = MaxVal
    /\ Cardinality(DOMAIN Abilities[call.cat]) = 2
    /\ Summary.AbilityPoints # 0
    /\ Summary.MaxAbilityPoints # 0
    /\ Summary.AllocatedPoints # 0
====
